---- MODULE Spec2Model ----
(***************************************************************************)
(* Verification model of the advent-2023 puzzle solvers.                   *)
(*                                                                         *)
(*   day05  Map::translate / MapLine::try_translate / solve and the        *)
(*          parsers of map lines and seed lines                            *)
(*   day01  search_starting_digit                                          *)
(*   day02  the two Game parsers (day02.rs and day02/game.rs)              *)
(*   day04  Card::matching and score                                       *)
(*   day14  Puzzle::tick and the iterator that evaluates one cycle         *)
(*                                                                         *)
(* A &str is a sequence of one-character strings; a Range<usize> is a      *)
(* record [start, end]; an Option / Result is a record with a tag.         *)
(***************************************************************************)
EXTENDS Integers, Sequences, FiniteSets, TLC

VARIABLES
    \* ---- day05: solve(seeds, maps) and the Map::translate it runs
    maps,          \* solve: `maps: &[Map]`, each Map a sequence of MapLine
    seeds_arg,     \* solve: the `seeds: Seeds` argument
    pre_total,     \* solve: `pre_total`
    seeds,         \* solve: `let mut seeds`, the argument of the running translate
    map_idx,       \* solve: number of maps the `for map in maps` loop has finished
    seed_ranges,   \* translate: the seed stack
    out_ranges,    \* translate: the stack of translated ranges
    result,        \* solve: the value returned
    panic,         \* message of the panic that ended the program, "" when none
    pc,            \* position in solve
    \* ---- day05: one call of MapLine::try_translate
    overflow_checks, \* whether the build panics on integer overflow (debug) or wraps
    t5_line,       \* the MapLine `self`
    t5_seeds,      \* the `seeds` argument
    t5_out,        \* what the call returned, or the panic that ended it
    \* ---- day05: the parsers
    p5_nums,       \* the numbers written on the line
    p5_line,       \* the text line given to a parser
    p5_kind,       \* which parser the line is for
    p5_out,        \* what the parser returned
    \* ---- day01: one call of search_starting_digit
    d1_line,       \* the text given to search_starting_digit
    d1_found,      \* what it returned
    d1_called,     \* whether the call was made
    \* ---- day02: one line parsed by both Game parsers
    d2_written,    \* the id and the sets written on the line
    d2_line,       \* the text line
    d2_game,       \* day02.rs: line.parse::<Game>()
    d2_game_mod,   \* day02/game.rs: line.parse::<Game>()
    \* ---- day04: one card
    d4_written,    \* the numbers written on the card, left and right of '|'
    d4_line,       \* the text line
    d4_card,       \* line.parse::<Card>()
    d4_matching,   \* card.matching()
    d4_score,      \* score(card.matching())
    \* ---- day14: the Puzzle and one call of its iterator's next
    puzzle_main,   \* Puzzle::puzzle_main, a Grid<Tile>
    puzzle_temp,   \* Puzzle::puzzle_temp
    seen,          \* Puzzle::seen
    cycle_length,  \* Puzzle::cycle_length
    loads,         \* Puzzle::loads
    direction,     \* next: `let mut direction`
    tiles_moved,   \* next: `let tiles_moved`, what the last tick returned
    d14_pc,        \* position in next
    d14_ret        \* what the last call of next returned

vars05 == <<maps, seeds_arg, pre_total, seeds, map_idx, seed_ranges, out_ranges,
            result, panic, pc>>
varsT5 == <<overflow_checks, t5_line, t5_seeds, t5_out>>
varsP5 == <<p5_nums, p5_line, p5_kind, p5_out>>
vars01 == <<d1_line, d1_found, d1_called>>
vars02 == <<d2_written, d2_line, d2_game, d2_game_mod>>
vars04 == <<d4_written, d4_line, d4_card, d4_matching, d4_score>>
vars14 == <<puzzle_main, puzzle_temp, seen, cycle_length, loads, direction,
            tiles_moved, d14_pc, d14_ret>>
vars == <<vars05, varsT5, varsP5, vars01, vars02, vars04, vars14>>
others05 == <<varsT5, varsP5, vars01, vars02, vars04, vars14>>

\* ------------------------------------------------------------------ bounds
\* Largest endpoint of a seed range or of a rule's source range.
MaxPos == 2

\* Width of usize and isize in bits, scaled down from the 64 of the build; every
\* position that solve meets stays below 2^(UsizeBits - 1).
UsizeBits == 5

\* ------------------------------------------------------- generic helpers
SeqsUpTo(S, n) == UNION {[1..k -> S] : k \in 0..n}

RECURSIVE SumSeq(_)
SumSeq(s) == IF s = <<>> THEN 0 ELSE Head(s) + SumSeq(Tail(s))

SetMax(S) == CHOOSE x \in S : \A y \in S : y <= x
SetMin(S) == CHOOSE x \in S : \A y \in S : x <= y

\* Option, Result and a panic, as tagged records.
None == [tag |-> "None", val |-> <<>>, msg |-> ""]
Some(v) == [tag |-> "Some", val |-> v, msg |-> ""]
Panic(m) == [tag |-> "Panic", val |-> <<>>, msg |-> m]
\* A call that has not returned yet.
Pending == [tag |-> "Pending", val |-> <<>>, msg |-> ""]
\* ---------------------------------------------------------- &str helpers
\* char::to_digit(10) on an ASCII digit.
Digits == <<"0", "1", "2", "3", "4", "5", "6", "7", "8", "9">>
IsDigit(c) == \E d \in 1..10 : Digits[d] = c
to_digit(c) == (CHOOSE d \in 1..10 : Digits[d] = c) - 1

\* char::is_ascii_whitespace / char::is_whitespace on the characters used.
IsWhitespace(c) == c \in {" ", "\t", "\n", "\r", "\f"}

\* str::starts_with
starts_with(s, p) == Len(p) <= Len(s) /\ SubSeq(s, 1, Len(p)) = p

\* str::strip_prefix
strip_prefix(s, p) ==
    IF starts_with(s, p) THEN Some(SubSeq(s, Len(p) + 1, Len(s))) ELSE None

\* str::find: the first position where p occurs in s, 0 when it does not.
find(s, p) ==
    LET at == {i \in 1..(Len(s) - Len(p) + 1) : SubSeq(s, i, i + Len(p) - 1) = p} IN
    IF at = {} THEN 0 ELSE SetMin(at)

\* str::split_once: the text before and after the first occurrence of p.
split_once(s, p) ==
    LET i == find(s, p) IN
    IF i = 0 THEN None
    ELSE Some(<<SubSeq(s, 1, i - 1), SubSeq(s, i + Len(p), Len(s))>>)

\* str::splitn(n, p): at most n pieces, the last one the unsplit rest.
RECURSIVE splitn(_, _, _)
splitn(n, s, p) ==
    LET i == find(s, p) IN
    IF n <= 1 \/ i = 0 THEN <<s>>
    ELSE <<SubSeq(s, 1, i - 1)>> \o splitn(n - 1, SubSeq(s, i + Len(p), Len(s)), p)

\* str::split(p): every piece, empty ones included.
RECURSIVE split(_, _)
split(s, p) ==
    LET i == find(s, p) IN
    IF i = 0 THEN <<s>>
    ELSE <<SubSeq(s, 1, i - 1)>> \o split(SubSeq(s, i + Len(p), Len(s)), p)

\* str::trim
RECURSIVE trim_start(_)
trim_start(s) ==
    IF s # <<>> /\ IsWhitespace(Head(s)) THEN trim_start(Tail(s)) ELSE s
RECURSIVE trim_end(_)
trim_end(s) ==
    IF s # <<>> /\ IsWhitespace(s[Len(s)])
    THEN trim_end(SubSeq(s, 1, Len(s) - 1)) ELSE s
trim(s) == trim_end(trim_start(s))

\* str::split_ascii_whitespace / split_whitespace: the non-empty words.
RECURSIVE SplitWords(_, _, _)
SplitWords(s, i, word) ==
    IF i > Len(s) THEN (IF word = <<>> THEN <<>> ELSE <<word>>)
    ELSE IF IsWhitespace(s[i])
         THEN (IF word = <<>> THEN <<>> ELSE <<word>>) \o SplitWords(s, i + 1, <<>>)
         ELSE SplitWords(s, i + 1, Append(word, s[i]))
split_ascii_whitespace(s) == SplitWords(s, 1, <<>>)

Ok(v) == [tag |-> "Ok", val |-> v, msg |-> ""]
Err(m) == [tag |-> "Err", val |-> <<>>, msg |-> m]

\* str::parse for an unsigned integer: an optional '+', then digits only.
\* The width of the target type is checked by parse_u8 and parse_u16; the
\* numbers written on the lines of this model all fit usize.
RECURSIVE DigitsValue(_, _)
DigitsValue(s, acc) ==
    IF s = <<>> THEN acc ELSE DigitsValue(Tail(s), 10 * acc + to_digit(Head(s)))
parse_unsigned(s) ==
    IF s = <<>> THEN Err("cannot parse integer from empty string")
    ELSE LET ds == IF Head(s) = "+" THEN Tail(s) ELSE s IN
         IF ds = <<>> \/ \E i \in 1..Len(ds) : ~IsDigit(ds[i])
         THEN Err("invalid digit found in string")
         ELSE Ok(DigitsValue(ds, 0))

\* The decimal text of a number, and a text written as a TLA+ tuple of words.
RECURSIVE Dec(_)
Dec(n) == IF n < 10 THEN <<Digits[n + 1]>> ELSE Dec(n \div 10) \o <<Digits[(n % 10) + 1]>>
RECURSIVE Join(_, _)
Join(words, sep) ==
    IF words = <<>> THEN <<>>
    ELSE IF Len(words) = 1 THEN words[1]
         ELSE words[1] \o sep \o Join(Tail(words), sep)

\* ---------------------------------------------------------------- day05
Range(a, b) == [start |-> a, end |-> b]

\* Range<usize>::len(): 0 when the range is empty or reversed.
RangeLen(r) == IF r.start < r.end THEN r.end - r.start ELSE 0

\* seeds.iter().fold(0, |acc, range| acc + range.len())
RECURSIVE TotalLen(_)
TotalLen(rs) == IF rs = <<>> THEN 0 ELSE RangeLen(Head(rs)) + TotalLen(Tail(rs))

\* ---- usize and isize arithmetic of try_translate and adjust_range
USIZE_MAX == 2^UsizeBits - 1
ISIZE_MAX == 2^(UsizeBits - 1) - 1
ISIZE_MIN == -(2^(UsizeBits - 1))

\* `x as isize` on a usize: the same bits read as two's complement.
as_isize(x) == IF x > ISIZE_MAX THEN x - 2^UsizeBits ELSE x

\* The outcome of an arithmetic step: a value, or the panic that ended it.
Value(v) == [ok |-> TRUE, val |-> v, msg |-> ""]
Failed(m) == [ok |-> FALSE, val |-> 0, msg |-> m]

\* isize - isize: an overflow panics in a build with overflow checks and wraps
\* in one without.
isize_sub(a, b) ==
    IF a - b >= ISIZE_MIN /\ a - b <= ISIZE_MAX THEN Value(a - b)
    ELSE IF overflow_checks THEN Failed("attempt to subtract with overflow")
         ELSE Value(((a - b - ISIZE_MIN) % 2^UsizeBits) + ISIZE_MIN)

\* usize + usize, likewise.
usize_add(a, b) ==
    IF a + b <= USIZE_MAX THEN Value(a + b)
    ELSE IF overflow_checks THEN Failed("attempt to add with overflow")
         ELSE Value((a + b) % 2^UsizeBits)

\* usize::checked_add_signed: None when the sum leaves 0..=usize::MAX.
checked_add_signed(x, rhs) ==
    IF x + rhs < 0 \/ x + rhs > USIZE_MAX THEN None ELSE Some(x + rhs)

\* A slip in adjust_range: a non-negative offset moves the start alone.
adjust_range_start_only(range, offset) ==
    IF offset >= 0
    THEN LET s == usize_add(range.start, offset) IN
         IF ~s.ok THEN [ok |-> FALSE, range |-> range, msg |-> s.msg]
         ELSE [ok |-> TRUE, range |-> Range(s.val, range.end), msg |-> ""]
    ELSE LET s == checked_add_signed(range.start, offset)
             e == checked_add_signed(range.end, offset)
         IN IF s.tag = "None"
            THEN [ok |-> FALSE, range |-> range, msg |-> "seed.start overflowed"]
            ELSE IF e.tag = "None"
                 THEN [ok |-> FALSE, range |-> range, msg |-> "seed.end overflowed"]
                 ELSE [ok |-> TRUE, range |-> Range(s.val, e.val), msg |-> ""]

\* adjust_range: both ends moved by offset, start first; a non-negative offset
\* is added as a usize, a negative one by checked_add_signed(..).expect(..).
adjust_range(range, offset) ==
    IF offset >= 0
    THEN LET s == usize_add(range.start, offset)
             e == usize_add(range.end, offset)
         IN IF ~s.ok THEN [ok |-> FALSE, range |-> range, msg |-> s.msg]
            ELSE IF ~e.ok THEN [ok |-> FALSE, range |-> range, msg |-> e.msg]
                 ELSE [ok |-> TRUE, range |-> Range(s.val, e.val), msg |-> ""]
    ELSE LET s == checked_add_signed(range.start, offset)
             e == checked_add_signed(range.end, offset)
         IN IF s.tag = "None"
            THEN [ok |-> FALSE, range |-> range, msg |-> "seed.start overflowed"]
            ELSE IF e.tag = "None"
                 THEN [ok |-> FALSE, range |-> range, msg |-> "seed.end overflowed"]
                 ELSE [ok |-> TRUE, range |-> Range(s.val, e.val), msg |-> ""]

Piece(r, ready) == [range |-> r, ready |-> ready]

\* A slip in try_translate: the partial overlaps hand back the whole seed range
\* for re-checking in place of the part outside src.
Branches_requeue_whole(self, sd, offset) ==
    IF self.src.start <= sd.start /\ self.src.end >= sd.end
    THEN LET adj == adjust_range(sd, offset) IN
         IF adj.ok THEN Some(<<Piece(adj.range, TRUE)>>) ELSE Panic(adj.msg)
    ELSE IF sd.start < self.src.start /\ sd.end > self.src.end
    THEN LET adj == adjust_range(Range(self.src.start, self.src.end), offset) IN
         IF adj.ok
         THEN Some(<<Piece(Range(sd.start, self.src.start), FALSE), Piece(adj.range, TRUE),
                     Piece(Range(self.src.end, sd.end), FALSE)>>)
         ELSE Panic(adj.msg)
    ELSE IF sd.end > self.src.start /\ sd.start < self.src.start
    THEN LET adj == adjust_range(Range(self.src.start, sd.end), offset) IN
         IF adj.ok THEN Some(<<Piece(adj.range, TRUE), Piece(sd, FALSE)>>)
         ELSE Panic(adj.msg)
    ELSE LET adj == adjust_range(Range(sd.start, self.src.end), offset) IN
         IF adj.ok THEN Some(<<Piece(adj.range, TRUE), Piece(sd, FALSE)>>)
         ELSE Panic(adj.msg)

\* try_translate, lines 116-168: the branches after the offset is known, in
\* the order of the code.
Branches(self, sd, offset) ==
    IF self.src.start <= sd.start /\ self.src.end >= sd.end
    THEN LET adj == adjust_range(sd, offset) IN
         IF adj.ok THEN Some(<<Piece(adj.range, TRUE)>>) ELSE Panic(adj.msg)
    ELSE IF sd.start < self.src.start /\ sd.end > self.src.end
    THEN LET left_outside == Range(sd.start, self.src.start)
             inside == Range(self.src.start, self.src.end)
             right_outside == Range(self.src.end, sd.end)
             adj == adjust_range(inside, offset)
         IN IF adj.ok
            THEN Some(<<Piece(left_outside, FALSE), Piece(adj.range, TRUE),
                        Piece(right_outside, FALSE)>>)
            ELSE Panic(adj.msg)
    ELSE IF sd.end > self.src.start /\ sd.start < self.src.start
    THEN LET inside == Range(self.src.start, sd.end)
             outside == Range(sd.start, self.src.start)
             adj == adjust_range(inside, offset)
         IN IF adj.ok
            THEN Some(<<Piece(adj.range, TRUE), Piece(outside, FALSE)>>)
            ELSE Panic(adj.msg)
    ELSE IF sd.start < self.src.end /\ sd.end > self.src.end
    THEN LET outside == Range(self.src.end, sd.end)
             inside == Range(sd.start, self.src.end)
             adj == adjust_range(inside, offset)
         IN IF adj.ok
            THEN Some(<<Piece(adj.range, TRUE), Piece(outside, FALSE)>>)
            ELSE Panic(adj.msg)
    ELSE Panic("unreachable")

\* MapLine::try_translate: None without an overlap, else the offset
\* `self.dst.start as isize - self.src.start as isize` and the branches.
try_translate(self, sd) ==
    IF sd.end <= self.src.start \/ sd.start >= self.src.end
    THEN None
    ELSE LET offset == isize_sub(as_isize(self.dst.start), as_isize(self.src.start)) IN
         IF offset.ok THEN Branches(self, sd, offset.val) ELSE Panic(offset.msg)

\* translate, lines 35-45: `for (range, ready) in changed`.
RECURSIVE ForChanged(_, _, _)
ForChanged(changed, i, st) ==
    IF i > Len(changed) THEN st
    ELSE IF changed[i].ready
         THEN ForChanged(changed, i + 1,
                  [st EXCEPT !.out_ranges = Append(@, changed[i].range),
                             !.was_translated = TRUE])
         ELSE ForChanged(changed, i + 1,
                  [st EXCEPT !.seed_ranges = Append(@, changed[i].range)])

\* A slip in the translator loop: no `break` once a part was translated, so
\* the later translators see the same seed range again.
RECURSIVE ForTranslators_no_break(_, _, _, _)
ForTranslators_no_break(self, j, sd, st) ==
    IF j > Len(self)
    THEN st
    ELSE LET r == try_translate(self[j], sd) IN
         IF r.tag = "Panic" THEN [st EXCEPT !.panic = r.msg]
         ELSE IF r.tag = "Some"
              THEN ForTranslators_no_break(self, j + 1, sd, ForChanged(r.val, 1, st))
              ELSE ForTranslators_no_break(self, j + 1, sd, st)

\* A slip in the translator loop: the table is walked from its last rule.
RECURSIVE ForTranslators_reversed(_, _, _, _)
ForTranslators_reversed(self, j, sd, st) ==
    IF j > Len(self) \/ st.was_translated
    THEN st
    ELSE LET r == try_translate(self[Len(self) + 1 - j], sd) IN
         IF r.tag = "Panic" THEN [st EXCEPT !.panic = r.msg]
         ELSE IF r.tag = "Some"
              THEN ForTranslators_reversed(self, j + 1, sd, ForChanged(r.val, 1, st))
              ELSE ForTranslators_reversed(self, j + 1, sd, st)

\* translate, lines 21-47: `for translator in &self.0`, from translator j on.
RECURSIVE ForTranslators(_, _, _, _)
ForTranslators(self, j, sd, st) ==
    IF j > Len(self) \/ st.was_translated
    THEN st
    ELSE LET r == try_translate(self[j], sd) IN
         IF r.tag = "Panic" THEN [st EXCEPT !.panic = r.msg]
         ELSE IF r.tag = "Some"
              THEN ForTranslators(self, j + 1, sd, ForChanged(r.val, 1, st))
              ELSE ForTranslators(self, j + 1, sd, st)

\* translate, lines 15-55: one iteration of `while let Some(seeds) = seed_ranges.pop()`.
WhileBody(self, stack, out) ==
    LET sd == stack[Len(stack)]
        st0 == [seed_ranges |-> SubSeq(stack, 1, Len(stack) - 1), out_ranges |-> out,
                was_translated |-> FALSE, panic |-> ""]
        st1 == ForTranslators(self, 1, sd, st0)
    IN IF st1.panic = "" /\ ~st1.was_translated
       THEN [st1 EXCEPT !.out_ranges = Append(@, sd)]
       ELSE st1

\* solve, line 190: seeds.iter().min_by_key(|&range| range.start.min(range.end));
\* the first of several equally minimal elements.
RangeKey(r) == IF r.start <= r.end THEN r.start ELSE r.end

min_by_key(rs) ==
    LET i == CHOOSE i \in 1..Len(rs) :
                 /\ \A k \in 1..Len(rs) : RangeKey(rs[i]) <= RangeKey(rs[k])
                 /\ \A k \in 1..(i - 1) : RangeKey(rs[k]) > RangeKey(rs[i])
    IN rs[i]

\* ---- the inputs of solve
\* A map line as the parser builds it: dst and src of one length.
MapLineOf(d, s, n) == [dst |-> Range(d, d + n), src |-> Range(s, s + n)]

\* Rules whose source lies in 0..MaxPos, moved to the bottom or to the top.
MapLines == {MapLineOf(d, s, n) : d \in {0, MaxPos},
                                  s \in 0..MaxPos, n \in 0..MaxPos} \cap
            {MapLineOf(d, s, e - s) : d \in {0, MaxPos},
                                      s \in 0..MaxPos, e \in 0..MaxPos}

\* Seed ranges as the seed parsers build them, start..start+length, reaching
\* one position past the rules' sources.
SeedRanges == {Range(a, b) : a \in 0..(MaxPos + 1), b \in 0..(MaxPos + 1)} \cap
              {Range(a, a + n) : a \in 0..(MaxPos + 1), n \in 0..(MaxPos + 1)}

\* One table of up to two rules against up to two seed ranges; one table of
\* three rules with non-empty sources against one seed range; and chains of
\* up to two tables of at most one rule against at most one seed range.
DeepInputs == {[maps |-> <<t>>, seeds |-> <<s>>] :
                  t \in [1..3 -> {l \in MapLines : l.src.start < l.src.end}],
                  s \in SeedRanges}
TableInputs == {[maps |-> <<t>>, seeds |-> s] :
                   t \in SeqsUpTo(MapLines, 2), s \in SeqsUpTo(SeedRanges, 2)}
ChainInputs == {[maps |-> c, seeds |-> s] :
                   c \in SeqsUpTo(SeqsUpTo(MapLines, 1), 2),
                   s \in SeqsUpTo(SeedRanges, 1)}

Idle05 ==
    /\ maps = <<>> /\ seeds_arg = <<>> /\ pre_total = 0 /\ seeds = <<>>
    /\ map_idx = 0 /\ seed_ranges = <<>> /\ out_ranges = <<>>
    /\ result = 0 /\ panic = "" /\ pc = "idle"
IdleT5 ==
    /\ overflow_checks = FALSE
    /\ t5_line = <<>> /\ t5_seeds = <<>> /\ t5_out = Pending
IdleP5 == p5_nums = <<>> /\ p5_line = <<>> /\ p5_kind = "idle" /\ p5_out = None
Idle01 == d1_line = <<>> /\ d1_found = None /\ d1_called = FALSE
Idle02 == d2_written = <<>> /\ d2_line = <<>> /\ d2_game = None /\ d2_game_mod = None
Idle04 ==
    /\ d4_written = <<>> /\ d4_line = <<>> /\ d4_card = None
    /\ d4_matching = None /\ d4_score = None
Idle14 ==
    /\ puzzle_main = <<>> /\ puzzle_temp = <<>> /\ seen = <<>>
    /\ cycle_length = 0 /\ loads = <<>> /\ direction = "North"
    /\ tiles_moved = 0 /\ d14_pc = "idle" /\ d14_ret = None

Init ==
    /\ \/ \E inp \in TableInputs : maps = inp.maps /\ seeds_arg = inp.seeds
       \/ \E inp \in DeepInputs : maps = inp.maps /\ seeds_arg = inp.seeds
       \/ \E inp \in ChainInputs : maps = inp.maps /\ seeds_arg = inp.seeds
    /\ pre_total = 0 /\ seeds = <<>> /\ map_idx = 0
    /\ seed_ranges = <<>> /\ out_ranges = <<>>
    /\ result = 0 /\ panic = "" /\ pc = "solve"
    /\ overflow_checks \in BOOLEAN
    /\ t5_line = <<>> /\ t5_seeds = <<>> /\ t5_out = Pending
    /\ IdleP5 /\ Idle01 /\ Idle02 /\ Idle04 /\ Idle14

\* solve, lines 175-178: pre_total and the working copy of the seeds.
SolveStart ==
    /\ pc = "solve"
    /\ pre_total' = TotalLen(seeds_arg)
    /\ seeds' = seeds_arg
    /\ pc' = "for_map"
    /\ UNCHANGED <<maps, seeds_arg, map_idx, seed_ranges, out_ranges, result, panic>>
    /\ UNCHANGED others05

\* solve, line 180: the call map.translate(seeds); translate, line 13.
TranslateCall ==
    /\ pc = "for_map" /\ map_idx < Len(maps)
    /\ seed_ranges' = seeds
    /\ out_ranges' = <<>>
    /\ pc' = "translate"
    /\ UNCHANGED <<maps, seeds_arg, pre_total, seeds, map_idx, result, panic>>
    /\ UNCHANGED others05

\* translate, lines 15-55: one pass of the while loop.
TranslateStep ==
    /\ pc = "translate" /\ seed_ranges # <<>>
    /\ LET st == WhileBody(maps[map_idx + 1], seed_ranges, out_ranges) IN
         IF st.panic # ""
         THEN /\ panic' = st.panic /\ pc' = "panic"
              /\ UNCHANGED <<seed_ranges, out_ranges>>
         ELSE /\ seed_ranges' = st.seed_ranges
              /\ out_ranges' = st.out_ranges
              /\ UNCHANGED <<panic, pc>>
    /\ UNCHANGED <<maps, seeds_arg, pre_total, seeds, map_idx, result>>
    /\ UNCHANGED others05

\* translate, line 57, and solve, lines 180-183: the result replaces seeds.
TranslateReturn ==
    /\ pc = "translate" /\ seed_ranges = <<>>
    /\ seeds' = out_ranges
    /\ map_idx' = map_idx + 1
    /\ pc' = "for_map"
    /\ UNCHANGED <<maps, seeds_arg, pre_total, seed_ranges, out_ranges, result, panic>>
    /\ UNCHANGED others05

\* solve, lines 186-190: the total is compared and the minimum returned.
SolveFinish ==
    /\ pc = "for_map" /\ map_idx = Len(maps)
    /\ IF pre_total # TotalLen(seeds)
       THEN /\ panic' = "unexpected amount of seeds" /\ pc' = "panic"
            /\ UNCHANGED result
       ELSE IF seeds = <<>>
            THEN /\ panic' = "unwrap on None" /\ pc' = "panic"
                 /\ UNCHANGED result
            ELSE /\ result' = min_by_key(seeds).start
                 /\ pc' = "done"
                 /\ UNCHANGED panic
    /\ UNCHANGED <<maps, seeds_arg, pre_total, seeds, map_idx, seed_ranges, out_ranges>>
    /\ UNCHANGED others05

Next ==
    \/ SolveStart
    \/ TranslateCall
    \/ TranslateStep
    \/ TranslateReturn
    \/ SolveFinish

Spec == Init /\ [][Next]_vars

\* solve over one table of up to two rules and one seed range, run as the one
\* sequential thread it is: a step that is possible is taken.
InitTerm ==
    /\ \E t \in SeqsUpTo(MapLines, 2), s \in SeedRanges :
          maps = <<t>> /\ seeds_arg = <<s>>
    /\ pre_total = 0 /\ seeds = <<>> /\ map_idx = 0
    /\ seed_ranges = <<>> /\ out_ranges = <<>>
    /\ result = 0 /\ panic = "" /\ pc = "solve"
    /\ overflow_checks \in BOOLEAN
    /\ t5_line = <<>> /\ t5_seeds = <<>> /\ t5_out = Pending
    /\ IdleP5 /\ Idle01 /\ Idle02 /\ Idle04 /\ Idle14

\* Weak fairness of every step of solve. For TranslateStep it is written out:
\* the step is enabled exactly while translate's loop has a range to pop.
SpecTerm ==
    /\ InitTerm /\ [][Next]_vars
    /\ WF_vars(SolveStart) /\ WF_vars(TranslateCall)
    /\ WF_vars(TranslateReturn) /\ WF_vars(SolveFinish)
    /\ \/ []<><<TranslateStep>>_vars
       \/ []<>~(pc = "translate" /\ seed_ranges # <<>>)

\* ---------------------------------------- day05: one call of try_translate
\* The positions next to 0, to isize::MAX and to usize::MAX.
EdgeValues == {0, 1, 2, ISIZE_MAX, ISIZE_MAX + 1, ISIZE_MAX + 2,
               USIZE_MAX - 1, USIZE_MAX}

\* Rules as MapLine::from_str builds them, dst and src of one length and both
\* within usize; seed ranges with start <= end.
TryLines == {l \in {MapLineOf(d, s, e - s) : d \in EdgeValues,
                                              s \in EdgeValues, e \in EdgeValues} :
                l.src.start <= l.src.end /\ l.dst.end <= USIZE_MAX}
TrySeeds == {r \in {Range(a, b) : a \in EdgeValues, b \in EdgeValues} :
                r.start <= r.end}

InitTry ==
    /\ overflow_checks \in BOOLEAN
    /\ t5_line \in TryLines
    /\ t5_seeds \in TrySeeds
    /\ t5_out = Pending
    /\ Idle05 /\ IdleP5 /\ Idle01 /\ Idle02 /\ Idle04 /\ Idle14

\* translate, line 27: translator.try_translate(&seeds).
TryTranslate ==
    /\ t5_out = Pending
    /\ t5_out' = try_translate(t5_line, t5_seeds)
    /\ UNCHANGED <<overflow_checks, t5_line, t5_seeds>>
    /\ UNCHANGED <<vars05, varsP5, vars01, vars02, vars04, vars14>>

NextTry == TryTranslate

SpecTry == InitTry /\ [][NextTry]_vars

\* ------------------------------------------------------- day05: parsers
\* A slip in MapLine::from_str: src built from dst_start.
MapLine_from_str_src_from_dst(s) ==
    LET words == split_ascii_whitespace(s) IN
    IF Len(words) < 1 THEN Err("missing dst start")
    ELSE LET dst_start == parse_unsigned(words[1]) IN
    IF dst_start.tag = "Err" THEN dst_start
    ELSE IF Len(words) < 2 THEN Err("missing src start")
    ELSE LET src_start == parse_unsigned(words[2]) IN
    IF src_start.tag = "Err" THEN src_start
    ELSE IF Len(words) < 3 THEN Err("missing range length")
    ELSE LET range_len == parse_unsigned(words[3]) IN
    IF range_len.tag = "Err" THEN range_len
    ELSE Ok([dst |-> Range(dst_start.val, dst_start.val + range_len.val),
             src |-> Range(dst_start.val, dst_start.val + range_len.val)])

\* impl FromStr for MapLine: three numbers, anything after them ignored.
MapLine_from_str(s) ==
    LET words == split_ascii_whitespace(s) IN
    IF Len(words) < 1 THEN Err("missing dst start")
    ELSE LET dst_start == parse_unsigned(words[1]) IN
    IF dst_start.tag = "Err" THEN dst_start
    ELSE IF Len(words) < 2 THEN Err("missing src start")
    ELSE LET src_start == parse_unsigned(words[2]) IN
    IF src_start.tag = "Err" THEN src_start
    ELSE IF Len(words) < 3 THEN Err("missing range length")
    ELSE LET range_len == parse_unsigned(words[3]) IN
    IF range_len.tag = "Err" THEN range_len
    ELSE Ok([dst |-> Range(dst_start.val, dst_start.val + range_len.val),
             src |-> Range(src_start.val, src_start.val + range_len.val)])

SeedsPrefix == <<"s", "e", "e", "d", "s", ":", " ">>

\* A slip in from_ranges_str: the length taken for the end of the range.
RECURSIVE RangesLoop_end_is_length(_, _, _)
RangesLoop_end_is_length(parts, i, out) ==
    IF i + 1 <= Len(parts)
       /\ parse_unsigned(parts[i]).tag = "Ok" /\ parse_unsigned(parts[i + 1]).tag = "Ok"
    THEN RangesLoop_end_is_length(parts, i + 2,
             Append(out, Range(parse_unsigned(parts[i]).val,
                               parse_unsigned(parts[i + 1]).val)))
    ELSE out

\* Seeds::from_ranges_str, lines 272-278: pairs are read while both parse.
RECURSIVE RangesLoop(_, _, _)
RangesLoop(parts, i, out) ==
    IF i + 1 <= Len(parts)
       /\ parse_unsigned(parts[i]).tag = "Ok" /\ parse_unsigned(parts[i + 1]).tag = "Ok"
    THEN LET start == parse_unsigned(parts[i]).val
             length == parse_unsigned(parts[i + 1]).val
         IN RangesLoop(parts, i + 2, Append(out, Range(start, start + length)))
    ELSE out

Seeds_from_ranges_str(s) ==
    LET stripped == strip_prefix(s, SeedsPrefix) IN
    IF stripped.tag = "None" THEN Panic("unwrap on None")
    ELSE Ok(RangesLoop(split_ascii_whitespace(stripped.val), 1, <<>>))

Seeds_from_singles_str(s) ==
    LET stripped == strip_prefix(s, SeedsPrefix) IN
    IF stripped.tag = "None" THEN Panic("unwrap on None")
    ELSE LET parts == split_ascii_whitespace(stripped.val) IN
         IF \E i \in 1..Len(parts) : parse_unsigned(parts[i]).tag = "Err"
         THEN Panic("unwrap on Err")
         ELSE Ok([i \in 1..Len(parts) |->
                     LET start == parse_unsigned(parts[i]).val IN Range(start, start + 1)])

\* ---- the lines given to the parsers
\* Most numbers on a line.
MaxNums == 4
\* The numbers written: one and several digits, with and without zeros.
LineNumbers == {0, 7, 10, 305}
Separators == {<<" ">>, <<" ", "\t", " ">>}
NumberLine(nums, sep) == Join([i \in 1..Len(nums) |-> Dec(nums[i])], sep)

InitParse ==
    /\ \E nums \in SeqsUpTo(LineNumbers, MaxNums), sep \in Separators,
          kind \in {"map line", "singles", "ranges"} :
          /\ p5_nums = nums
          /\ p5_kind = kind
          /\ p5_line = IF kind = "map line" THEN NumberLine(nums, sep)
                       ELSE SeedsPrefix \o NumberLine(nums, sep)
    /\ p5_out = None
    /\ Idle05 /\ IdleT5 /\ Idle14 /\ Idle01 /\ Idle02 /\ Idle04

othersP5 == <<vars05, varsT5, vars14, vars01, vars02, vars04>>

\* Map::from_lines, line 75: line.parse::<MapLine>()
ParseMapLine ==
    /\ p5_kind = "map line" /\ p5_out.tag = "None"
    /\ p5_out' = MapLine_from_str(p5_line)
    /\ UNCHANGED <<p5_nums, p5_line, p5_kind>>
    /\ UNCHANGED othersP5

\* main, line 200: Seeds::from_singles_str(seedline)
ParseSingles ==
    /\ p5_kind = "singles" /\ p5_out.tag = "None"
    /\ p5_out' = Seeds_from_singles_str(p5_line)
    /\ UNCHANGED <<p5_nums, p5_line, p5_kind>>
    /\ UNCHANGED othersP5

\* main, line 201: Seeds::from_ranges_str(seedline)
ParseRanges ==
    /\ p5_kind = "ranges" /\ p5_out.tag = "None"
    /\ p5_out' = Seeds_from_ranges_str(p5_line)
    /\ UNCHANGED <<p5_nums, p5_line, p5_kind>>
    /\ UNCHANGED othersP5

NextParse ==
    \/ ParseMapLine
    \/ ParseSingles
    \/ ParseRanges

SpecParse == InitParse /\ [][NextParse]_vars

\* ---------------------------------------------------------------- day01
\* search_starting_digit, lines 40-50: const DIGITS
DIGITS ==
    << [word |-> <<"o", "n", "e">>, value |-> 1],
      [word |-> <<"t", "w", "o">>, value |-> 2],
      [word |-> <<"t", "h", "r", "e", "e">>, value |-> 3],
      [word |-> <<"f", "o", "u", "r">>, value |-> 4],
      [word |-> <<"f", "i", "v", "e">>, value |-> 5],
      [word |-> <<"s", "i", "x">>, value |-> 6],
      [word |-> <<"s", "e", "v", "e", "n">>, value |-> 7],
      [word |-> <<"e", "i", "g", "h", "t">>, value |-> 8],
      [word |-> <<"n", "i", "n", "e">>, value |-> 9] >>

\* A slip in the search for a written digit: the word looked for anywhere
\* in the line.
RECURSIVE SearchWritten_anywhere(_, _)
SearchWritten_anywhere(line, k) ==
    IF k > Len(DIGITS) THEN None
    ELSE IF find(line, DIGITS[k].word) # 0 THEN Some(DIGITS[k].value)
         ELSE SearchWritten_anywhere(line, k + 1)

\* search_starting_digit, lines 62-68: the first entry of DIGITS, from entry
\* k on, the line starts with.
RECURSIVE SearchWritten(_, _)
SearchWritten(line, k) ==
    IF k > Len(DIGITS) THEN None
    ELSE IF starts_with(line, DIGITS[k].word) THEN Some(DIGITS[k].value)
         ELSE SearchWritten(line, k + 1)

search_starting_digit(line) ==
    IF line = <<>> THEN None
    ELSE IF IsDigit(line[1]) THEN Some(to_digit(line[1]))
         ELSE SearchWritten(line, 1)

\* ---- the lines searched: up to MaxTokens pieces, each a written digit, a
\* written digit cut short, a numeral or something else.
MaxTokens == 2
LineTokens ==
    { <<"o", "n", "e">>, <<"t", "w", "o">>, <<"t", "h", "r", "e", "e">>,
      <<"f", "o", "u", "r">>, <<"f", "i", "v", "e">>, <<"s", "i", "x">>,
      <<"s", "e", "v", "e", "n">>, <<"e", "i", "g", "h", "t">>, <<"n", "i", "n", "e">>,
      <<"o", "n">>, <<"t", "w">>, <<"t", "h", "r", "e">>,
      <<"f", "o", "u">>, <<"f", "i", "v">>, <<"s", "i">>,
      <<"s", "e", "v", "e">>, <<"e", "i", "g", "h">>, <<"n", "i", "n">>,
      <<"z", "e", "r", "o">>, <<"0">>, <<"5">>,
      <<"9">>, <<"x">> }
RECURSIVE Concat(_)
Concat(ws) == IF ws = <<>> THEN <<>> ELSE Head(ws) \o Concat(Tail(ws))
SearchLines == {Concat(ws) : ws \in SeqsUpTo(LineTokens, MaxTokens)}

Init01 ==
    /\ d1_line \in SearchLines
    /\ d1_found = None /\ d1_called = FALSE
    /\ Idle05 /\ IdleT5 /\ Idle14 /\ IdleP5 /\ Idle02 /\ Idle04

\* gold, line 79, and the tests: one call of search_starting_digit.
SearchStartingDigit ==
    /\ ~d1_called
    /\ d1_found' = search_starting_digit(d1_line)
    /\ d1_called' = TRUE
    /\ UNCHANGED d1_line
    /\ UNCHANGED <<vars05, varsT5, vars14, varsP5, vars02, vars04>>

\* gold, line 78: the search moves on to the rest of the line, &line[i..].
SearchRest ==
    /\ d1_called /\ Len(d1_line) > 1
    /\ d1_line' = Tail(d1_line)
    /\ d1_found' = None /\ d1_called' = FALSE
    /\ UNCHANGED <<vars05, varsT5, vars14, varsP5, vars02, vars04>>

Next01 ==
    \/ SearchStartingDigit
    \/ SearchRest

Spec01 == Init01 /\ [][Next01]_vars

\* ---------------------------------------------------------------- day02
\* The largest u8.
U8_MAX == 255

\* str::parse::<u8>()
parse_u8(s) ==
    LET r == parse_unsigned(s) IN
    IF r.tag = "Ok" /\ r.val > U8_MAX
    THEN Err("number too large to fit in target type") ELSE r

\* A slip in the colour match: the amount of green stored as blue and the
\* other way round.
RECURSIVE ForGroups_green_blue_swapped(_, _, _)
ForGroups_green_blue_swapped(groups, i, rgb) ==
    IF i > Len(groups) THEN Ok(rgb)
    ELSE LET pair == split_once(groups[i], <<" ">>) IN
    IF pair.tag = "None" THEN Err("Malformed (amount, color) pair")
    ELSE LET amount == parse_u8(pair.val[1])
             color == pair.val[2]
         IN IF amount.tag = "Err" THEN amount
            ELSE LET next == IF color = <<"r", "e", "d">> THEN [rgb EXCEPT ![1] = amount.val]
                             ELSE IF color = <<"g", "r", "e", "e", "n">> THEN [rgb EXCEPT ![3] = amount.val]
                             ELSE IF color = <<"b", "l", "u", "e">> THEN [rgb EXCEPT ![2] = amount.val]
                             ELSE rgb
               IN ForGroups_green_blue_swapped(groups, i + 1, next)

\* day02.rs, lines 28-37: `for group in set.splitn(3, ", ")`, from group i on.
RECURSIVE ForGroups(_, _, _)
ForGroups(groups, i, rgb) ==
    IF i > Len(groups) THEN Ok(rgb)
    ELSE LET pair == split_once(groups[i], <<" ">>) IN
    IF pair.tag = "None" THEN Err("Malformed (amount, color) pair")
    ELSE LET amount == parse_u8(pair.val[1])
             color == pair.val[2]
         IN IF amount.tag = "Err" THEN amount
            ELSE LET next == IF color = <<"r", "e", "d">> THEN Ok([rgb EXCEPT ![1] = amount.val])
                             ELSE IF color = <<"g", "r", "e", "e", "n">> THEN Ok([rgb EXCEPT ![2] = amount.val])
                             ELSE IF color = <<"b", "l", "u", "e">> THEN Ok([rgb EXCEPT ![3] = amount.val])
                             ELSE Ok(rgb)
               IN IF next.tag = "Err" THEN next
                  ELSE ForGroups(groups, i + 1, next.val)

\* day02.rs, lines 22-40: `for set in s.split(';')`, from set i on.
RECURSIVE ForSets(_, _, _)
ForSets(sets, i, out) ==
    IF i > Len(sets) THEN Ok(out)
    ELSE LET rgb == ForGroups(splitn(3, trim(sets[i]), <<",", " ">>), 1, <<0, 0, 0>>) IN
         IF rgb.tag = "Err" THEN rgb
         ELSE ForSets(sets, i + 1, Append(out, rgb.val))

\* day02.rs: impl FromStr for Game
Game_from_str(s) ==
    LET stripped == strip_prefix(s, <<"G", "a", "m", "e", " ">>) IN
    IF stripped.tag = "None" THEN Err("Missing 'Game' prefix")
    ELSE LET head == split_once(stripped.val, <<":", " ">>) IN
    IF head.tag = "None" THEN Err("Missing semicolon after game id")
    ELSE LET id == parse_unsigned(head.val[1]) IN
    IF id.tag = "Err" THEN id
    ELSE LET sets == ForSets(split(head.val[2], <<";">>), 1, <<>>) IN
         IF sets.tag = "Err" THEN sets
         ELSE Ok([id |-> id.val, sets |-> sets.val])

\* day02/game.rs, lines 28-37: `for group in set.splitn(3, ", ")`, from group i on.
RECURSIVE ModForGroups(_, _, _)
ModForGroups(groups, i, rgb) ==
    IF i > Len(groups) THEN Ok(rgb)
    ELSE LET pair == split_once(groups[i], <<" ">>) IN
    IF pair.tag = "None" THEN Err("MalformedAmountColorPair")
    ELSE LET amount == parse_u8(pair.val[1])
             color == pair.val[2]
         IN IF amount.tag = "Err" THEN Err("InvalidAmount")
            ELSE LET next == IF color = <<"r", "e", "d">> THEN Ok([rgb EXCEPT ![1] = amount.val])
                             ELSE IF color = <<"g", "r", "e", "e", "n">> THEN Ok([rgb EXCEPT ![2] = amount.val])
                             ELSE IF color = <<"b", "l", "u", "e">> THEN Ok([rgb EXCEPT ![3] = amount.val])
                             ELSE Err("InvalidColor")
               IN IF next.tag = "Err" THEN next
                  ELSE ModForGroups(groups, i + 1, next.val)

\* day02/game.rs, lines 22-40: `for set in s.split(';')`, from set i on.
RECURSIVE ModForSets(_, _, _)
ModForSets(sets, i, out) ==
    IF i > Len(sets) THEN Ok(out)
    ELSE LET rgb == ModForGroups(splitn(3, trim(sets[i]), <<",", " ">>), 1, <<0, 0, 0>>) IN
         IF rgb.tag = "Err" THEN rgb
         ELSE ModForSets(sets, i + 1, Append(out, rgb.val))

\* day02/game.rs: impl FromStr for Game
GameMod_from_str(s) ==
    LET stripped == strip_prefix(s, <<"G", "a", "m", "e", " ">>) IN
    IF stripped.tag = "None" THEN Err("MissingPrefix")
    ELSE LET head == split_once(stripped.val, <<":", " ">>) IN
    IF head.tag = "None" THEN Err("MissingSemicolon")
    ELSE LET id == parse_unsigned(head.val[1]) IN
    IF id.tag = "Err" THEN Err("InvalidGameId")
    ELSE LET sets == ModForSets(split(head.val[2], <<";">>), 1, <<>>) IN
         IF sets.tag = "Err" THEN sets
         ELSE Ok([id |-> id.val, sets |-> sets.val])

\* ---- the game lines: up to MaxSets sets, each listing one to three
\* different colours in some order, the amounts taken from one row.
MaxSets == 2
Colours == {<<"r", "e", "d">>, <<"g", "r", "e", "e", "n">>, <<"b", "l", "u", "e">>}
ColourOrders == {o \in SeqsUpTo(Colours, 3) :
                    Len(o) >= 1 /\ \A i, j \in 1..Len(o) : i # j => o[i] # o[j]}
AmountRows == {<<3, 12, 255>>}
GameIds == {1, 42}
WrittenSets == {[i \in 1..Len(o) |-> [amount |-> row[i], colour |-> o[i]]] :
                   o \in ColourOrders, row \in AmountRows}
WrittenGames == {[id |-> id, sets |-> ss] :
                    id \in GameIds, ss \in SeqsUpTo(WrittenSets, MaxSets) \ {<<>>}}

GroupText(g) == Dec(g.amount) \o <<" ">> \o g.colour
SetText(set) == Join([i \in 1..Len(set) |-> GroupText(set[i])], <<",", " ">>)
GameLine(g) ==
    <<"G", "a", "m", "e", " ">> \o Dec(g.id) \o <<":", " ">>
        \o Join([i \in 1..Len(g.sets) |-> SetText(g.sets[i])], <<";", " ">>)

Init02 ==
    /\ \E g \in WrittenGames : d2_written = g /\ d2_line = GameLine(g)
    /\ d2_game = None /\ d2_game_mod = None
    /\ Idle05 /\ IdleT5 /\ Idle14 /\ IdleP5 /\ Idle01 /\ Idle04

\* day02.rs, silver line 49 / gold line 67: line.parse::<Game>()
ParseGame ==
    /\ d2_game.tag = "None"
    /\ d2_game' = Game_from_str(d2_line)
    /\ UNCHANGED <<d2_written, d2_line, d2_game_mod>>
    /\ UNCHANGED <<vars05, varsT5, vars14, varsP5, vars01, vars04>>

\* day02/game.rs: the same line parsed by the module's Game
ParseGameMod ==
    /\ d2_game_mod.tag = "None"
    /\ d2_game_mod' = GameMod_from_str(d2_line)
    /\ UNCHANGED <<d2_written, d2_line, d2_game>>
    /\ UNCHANGED <<vars05, varsT5, vars14, varsP5, vars01, vars04>>

Next02 ==
    \/ ParseGame
    \/ ParseGameMod

Spec02 == Init02 /\ [][Next02]_vars

\* ---------------------------------------------------------------- day04
\* The largest u16.
U16_MAX == 65535

\* str::parse::<u16>()
parse_u16(s) ==
    LET r == parse_unsigned(s) IN
    IF r.tag = "Ok" /\ r.val > U16_MAX
    THEN Err("number too large to fit in target type") ELSE r

\* collect::<BTreeSet<u16>>() of the numbers of one side of the card.
RECURSIVE CollectSet(_)
CollectSet(words) ==
    IF words = <<>> THEN {}
    ELSE {parse_u16(Head(words)).val} \cup CollectSet(Tail(words))

\* impl FromStr for Card
Card_from_str(s) ==
    LET stripped == strip_prefix(s, <<"C", "a", "r", "d", " ">>) IN
    IF stripped.tag = "None" THEN Err("missing card prefix")
    ELSE LET colon == split_once(stripped.val, <<":">>) IN
    IF colon.tag = "None" THEN Err("missing semicolon after card number")
    ELSE LET bar == split_once(colon.val[2], <<"|">>) IN
    IF bar.tag = "None" THEN Err("invalid card number list format")
    ELSE LET winning == split_ascii_whitespace(bar.val[1])
             have == split_ascii_whitespace(bar.val[2])
         IN IF \E i \in 1..Len(winning) : parse_u16(winning[i]).tag = "Err"
            THEN Panic("unwrap on Err")
            ELSE IF \E i \in 1..Len(have) : parse_u16(have[i]).tag = "Err"
            THEN Panic("unwrap on Err")
            ELSE Ok([winning |-> CollectSet(winning), have |-> CollectSet(have)])

\* Card::matching: self.winning.intersection(&self.have).count()
matching(self) == Cardinality(self.winning \cap self.have)

\* usize::pow by repeated multiplication.
RECURSIVE pow(_, _)
pow(base, exp) == IF exp = 0 THEN 1 ELSE base * pow(base, exp - 1)

\* A slip in score: the exponent not lowered by one.
score_exponent_not_lowered(match_count) ==
    IF match_count > 0 THEN pow(2, match_count) ELSE 0

\* score
score(match_count) ==
    IF match_count > 0 THEN pow(2, match_count - 1) ELSE 0

\* ---- the cards: up to MaxCardLen numbers on each side of the bar
MaxCardLen == 3
CardNumbers == {6, 17, 83}
CardLine(w) ==
    <<"C", "a", "r", "d", " ", "1", ":", " ">>
        \o Join([i \in 1..Len(w.winning) |-> Dec(w.winning[i])], <<" ">>)
        \o <<" ", "|", " ">>
        \o Join([i \in 1..Len(w.have) |-> Dec(w.have[i])], <<" ", " ">>)

Init04 ==
    /\ \E w \in SeqsUpTo(CardNumbers, MaxCardLen), h \in SeqsUpTo(CardNumbers, MaxCardLen) :
          /\ d4_written = [winning |-> w, have |-> h]
          /\ d4_line = CardLine([winning |-> w, have |-> h])
    /\ d4_card = None /\ d4_matching = None /\ d4_score = None
    /\ Idle05 /\ IdleT5 /\ Idle14 /\ IdleP5 /\ Idle01 /\ Idle02

\* silver, lines 42-43: line.parse() into a Card
ParseCard ==
    /\ d4_card.tag = "None"
    /\ d4_card' = Card_from_str(d4_line)
    /\ UNCHANGED <<d4_written, d4_line, d4_matching, d4_score>>
    /\ UNCHANGED <<vars05, varsT5, vars14, varsP5, vars01, vars02>>

\* silver, line 44: score(card.matching())
ScoreCard ==
    /\ d4_card.tag = "Ok" /\ d4_score.tag = "None"
    /\ d4_matching' = Some(matching(d4_card.val))
    /\ d4_score' = Some(score(matching(d4_card.val)))
    /\ UNCHANGED <<d4_written, d4_line, d4_card>>
    /\ UNCHANGED <<vars05, varsT5, vars14, varsP5, vars01, vars02>>

Next04 ==
    \/ ParseCard
    \/ ScoreCard

Spec04 == Init04 /\ [][Next04]_vars

\* ---------------------------------------------------------------- day14
\* A Grid<Tile> holds its tiles row by row in one Vec:
\* [rows, cols, data], the tile at (row, col) being data[row * cols + col + 1].
Tiles == {"Empty", "Round", "Cube"}
Grid(rows, cols, data) == [rows |-> rows, cols |-> cols, data |-> data]

\* A slip in Direction::next: the directions in clockwise order.
Direction_next_clockwise(self) ==
    CASE self = "North" -> "East"
      [] self = "East"  -> "South"
      [] self = "South" -> "West"
      [] self = "West"  -> "North"

\* Direction::next
Direction_next(self) ==
    CASE self = "North" -> "West"
      [] self = "West"  -> "South"
      [] self = "South" -> "East"
      [] self = "East"  -> "North"

\* next_position: checked_sub fails at row 0 / column 0.
next_position(pos, dir) ==
    CASE dir = "North" -> IF pos[1] = 0 THEN None ELSE Some(<<pos[1] - 1, pos[2]>>)
      [] dir = "West"  -> IF pos[2] = 0 THEN None ELSE Some(<<pos[1], pos[2] - 1>>)
      [] dir = "South" -> Some(<<pos[1] + 1, pos[2]>>)
      [] dir = "East"  -> Some(<<pos[1], pos[2] + 1>>)

\* Grid::get: None outside the grid.
get(grid, row, col) ==
    IF row < grid.rows /\ col < grid.cols
    THEN Some(grid.data[row * grid.cols + col + 1])
    ELSE None

\* swap: the tiles at x and y change places; both are inside the grid at the
\* one call made.
swap(grid, x, y) ==
    LET ix == x[1] * grid.cols + x[2] + 1
        iy == y[1] * grid.cols + y[2] + 1
    IN [grid EXCEPT !.data = [@ EXCEPT ![ix] = grid.data[iy], ![iy] = grid.data[ix]]]

\* A slip in tick: a Cube counts as free space.
RECURSIVE ForRound_into_cube(_, _, _, _, _)
ForRound_into_cube(main, temp, dir, i, moved) ==
    IF i >= Len(main.data) THEN [temp |-> temp, tiles_moved |-> moved]
    ELSE IF main.data[i + 1] # "Round"
    THEN ForRound_into_cube(main, temp, dir, i + 1, moved)
    ELSE LET pos == <<i \div main.cols, i % main.cols>>
             nxt == next_position(pos, dir)
         IN IF nxt.tag = "None"
            THEN ForRound_into_cube(main, temp, dir, i + 1, moved)
            ELSE IF get(main, nxt.val[1], nxt.val[2]) \in {Some("Empty"), Some("Cube")}
                 THEN ForRound_into_cube(main, swap(temp, pos, nxt.val), dir, i + 1, moved + 1)
                 ELSE ForRound_into_cube(main, temp, dir, i + 1, moved)

\* tick, lines 79-101: the loop over the Round tiles of puzzle_main in the
\* order of indexed_iter, from tile i on.
RECURSIVE ForRound(_, _, _, _, _)
ForRound(main, temp, dir, i, moved) ==
    IF i >= Len(main.data) THEN [temp |-> temp, tiles_moved |-> moved]
    ELSE IF main.data[i + 1] # "Round"
    THEN ForRound(main, temp, dir, i + 1, moved)
    ELSE LET pos == <<i \div main.cols, i % main.cols>>
             nxt == next_position(pos, dir)
         IN IF nxt.tag = "None"
            THEN ForRound(main, temp, dir, i + 1, moved)
            ELSE IF get(main, nxt.val[1], nxt.val[2]) = Some("Empty")
                 THEN ForRound(main, swap(temp, pos, nxt.val), dir, i + 1, moved + 1)
                 ELSE ForRound(main, temp, dir, i + 1, moved)

\* Puzzle::tick: the loop, then puzzle_temp cloned into puzzle_main.
tick(main, temp, dir) ==
    LET r == ForRound(main, temp, dir, 0, 0) IN
    [puzzle_main |-> r.temp, puzzle_temp |-> r.temp, tiles_moved |-> r.tiles_moved]

\* calculate_load: the Round tiles of each row times n_rows - row.
RECURSIVE calculate_load_from(_, _)
calculate_load_from(puzzle, row) ==
    IF row >= puzzle.rows THEN 0
    ELSE Cardinality({col \in 0..(puzzle.cols - 1) :
                        puzzle.data[row * puzzle.cols + col + 1] = "Round"})
             * (puzzle.rows - row)
         + calculate_load_from(puzzle, row + 1)
calculate_load(puzzle) == calculate_load_from(puzzle, 0)

\* HashMap::get and HashMap::insert on `seen`, a function from Vec<Tile>.
seen_get(map, key) == IF key \in DOMAIN map THEN Some(map[key]) ELSE None
seen_insert(map, key, val) ==
    [k \in DOMAIN map \cup {key} |-> IF k = key THEN val ELSE map[k]]

\* ---- the puzzles
\* Most tiles a puzzle has, and most cycles main asks of the iterator.
MaxCells == 6
MaxCycles == 3

\* parse: every grid of at least one row and one column.
Shapes == {sh \in (1..MaxCells) \X (1..MaxCells) : sh[1] * sh[2] <= MaxCells}
Puzzles == UNION {{Grid(sh[1], sh[2], data) : data \in [1..(sh[1] * sh[2]) -> Tiles]} :
                     sh \in Shapes}
Directions == {"North", "West", "South", "East"}

\* Puzzle::new: puzzle_temp is the puzzle, puzzle_main its clone.
New14 ==
    /\ puzzle_main \in Puzzles /\ puzzle_temp = puzzle_main
    /\ seen = <<>> /\ cycle_length = 0 /\ loads = <<>>
    /\ tiles_moved = 0 /\ d14_ret = None

Init14 ==
    /\ New14 /\ direction = "North" /\ d14_pc = "ready"
    /\ Idle05 /\ IdleT5 /\ IdleP5 /\ Idle01 /\ Idle02 /\ Idle04

others14 == <<vars05, varsT5, varsP5, vars01, vars02, vars04>>

\* main, lines 156-163, and next, line 116: the iterator is asked for another
\* cycle until one reports a grid seen before.
NextCall ==
    /\ d14_pc = "ready" /\ cycle_length < MaxCycles
    /\ ~(d14_ret.tag = "Some" /\ d14_ret.val[3])
    /\ direction' = "North"
    /\ d14_pc' = "loop"
    /\ UNCHANGED <<puzzle_main, puzzle_temp, seen, cycle_length, loads, tiles_moved, d14_ret>>
    /\ UNCHANGED others14

\* next, lines 117-143: one pass of the loop, a tick and what follows it.
LoopPass ==
    /\ d14_pc = "loop"
    /\ LET t == tick(puzzle_main, puzzle_temp, direction)
           load == calculate_load(t.puzzle_main)
           oof == t.puzzle_main.data
           cached == seen_get(seen, oof)
       IN /\ puzzle_main' = t.puzzle_main
          /\ puzzle_temp' = t.puzzle_temp
          /\ tiles_moved' = t.tiles_moved
          /\ IF t.tiles_moved # 0
             THEN UNCHANGED <<direction, seen, cycle_length, loads, d14_pc, d14_ret>>
             ELSE /\ direction' = Direction_next(direction)
                  /\ IF Direction_next(direction) # "North"
                     THEN UNCHANGED <<seen, cycle_length, loads, d14_pc, d14_ret>>
                     ELSE /\ cycle_length' = cycle_length + 1
                          /\ loads' = Append(loads, load)
                          /\ d14_pc' = "ready"
                          /\ IF cached.tag = "Some"
                             THEN /\ d14_ret' = Some(<<load, cached.val, TRUE>>)
                                  /\ UNCHANGED seen
                             ELSE /\ seen' = seen_insert(seen, oof, cycle_length + 1)
                                  /\ d14_ret' = Some(<<load, cycle_length + 1, FALSE>>)
    /\ UNCHANGED others14

Next14 ==
    \/ NextCall
    \/ LoopPass

Spec14 == Init14 /\ [][Next14]_vars

\* ---- calls of Puzzle::tick on a new Puzzle, in any direction
InitTick ==
    /\ New14 /\ direction = "North" /\ d14_pc = "tick"
    /\ Idle05 /\ IdleT5 /\ IdleP5 /\ Idle01 /\ Idle02 /\ Idle04

\* self.tick(dir): `direction` keeps the argument, `tiles_moved` the result.
Tick ==
    /\ d14_pc = "tick"
    /\ \E dir \in Directions :
          LET t == tick(puzzle_main, puzzle_temp, dir) IN
          /\ puzzle_main' = t.puzzle_main
          /\ puzzle_temp' = t.puzzle_temp
          /\ tiles_moved' = t.tiles_moved
          /\ direction' = dir
    /\ UNCHANGED <<seen, cycle_length, loads, d14_pc, d14_ret>>
    /\ UNCHANGED others14

NextTick == Tick

SpecTick == InitTick /\ [][NextTick]_vars

\* ------------------------------------------------------- day05: claims
\* The table the running translate belongs to, and translate's return point.
CurTable == maps[map_idx + 1]
AtReturn == pc = "translate" /\ seed_ranges = <<>>

\* The integers a range covers, and how many ranges of a list cover v.
Vals(r) == {v \in r.start..(r.end - 1) : TRUE}
RECURSIVE Count(_, _)
Count(rs, v) ==
    IF rs = <<>> THEN 0
    ELSE (IF v \in Vals(Head(rs)) THEN 1 ELSE 0) + Count(Tail(rs), v)

\* The point map of a table: the first rule whose src contains v moves it.
PointMap(table, v) ==
    LET hits == {j \in 1..Len(table) : v \in Vals(table[j].src)} IN
    IF hits = {} THEN v
    ELSE LET j == SetMin(hits) IN v + (table[j].dst.start - table[j].src.start)

RECURSIVE ChainMap(_, _)
ChainMap(chain, v) ==
    IF chain = <<>> THEN v ELSE ChainMap(Tail(chain), PointMap(Head(chain), v))

\* Every position a range of the model can reach.
Universe == 0..(3 * MaxPos + 2)

\* C1: translate keeps the total length of its ranges (stack plus output
\* at every pass of its loop, so also at its return), the working seeds of
\* solve always total pre_total, and the 'unexpected amount of seeds' panic
\* is never reached.
C1_TotalLengthKept ==
    /\ pc = "translate" =>
          TotalLen(seed_ranges) + TotalLen(out_ranges) = TotalLen(seeds)
    /\ pc \in {"for_map", "translate", "done"} => TotalLen(seeds) = pre_total
    /\ panic # "unexpected amount of seeds"

\* C1 witness: a chain of two tables finished after splitting and moving seeds.
C1_Witness ==
    /\ pc = "done" /\ Len(maps) = 2 /\ pre_total > 1
    /\ Len(maps[1]) = 1 /\ Len(maps[2]) = 1
    /\ Len(seeds) > Len(seeds_arg)
    /\ \E i \in 1..Len(seeds) : seeds[i].start > MaxPos

\* The claim of C2 for one rule and one seed range.
Overlap(a, b) == Vals(a) \cap Vals(b) # {}
ReadyIx(ps) == {i \in 1..Len(ps) : ps[i].ready}
PiecesPartition(self, sd, ps) ==
    LET off == self.dst.start - self.src.start
        rest == {i \in 1..Len(ps) : ~ps[i].ready}
    IN /\ Cardinality(ReadyIx(ps)) = 1
       /\ \A i \in ReadyIx(ps) :
             Vals(ps[i].range) = {v + off : v \in Vals(sd) \cap Vals(self.src)}
       /\ Cardinality(rest) <= 2
       /\ \A i \in rest, k \in rest :
             i # k => Vals(ps[i].range) \cap Vals(ps[k].range) = {}
       /\ \A i \in rest : Vals(ps[i].range) \cap Vals(self.src) = {}
       /\ UNION {Vals(ps[i].range) : i \in rest} = Vals(sd) \ Vals(self.src)
C2_Holds(self, sd) ==
    LET r == try_translate(self, sd) IN
    /\ r.tag # "Panic"
    /\ (r.tag = "None") <=> ~Overlap(sd, self.src)
    /\ r.tag = "Some" => PiecesPartition(self, sd, r.val)

\* C2: try_translate gives None exactly when the seed range and src share no
\* integer, and otherwise one ready piece, the shifted intersection, plus up
\* to two disjoint unshifted pieces covering the rest of the seed range;
\* stated of the range translate is about to pop and every rule of the table.
C2_TryTranslatePartitions ==
    (pc = "translate" /\ seed_ranges # <<>>) =>
        \A j \in 1..Len(CurTable) :
            C2_Holds(CurTable[j], seed_ranges[Len(seed_ranges)])

\* C3: at translate's return every position is covered by as many output
\* ranges as there are covered input positions the table's point map sends
\* to it (first rule containing the value, else the value itself).
C3_ImageOfPointMap ==
    AtReturn =>
        \A w \in Universe :
            Count(out_ranges, w) =
                SumSeq([i \in 1..Len(seeds) |->
                           Cardinality({v \in Vals(seeds[i]) :
                                           PointMap(CurTable, v) = w})])

\* C3 witness: two rules with different offsets both contain a seed value,
\* so which rule comes first decides the output.
C3_Witness ==
    /\ AtReturn /\ Len(CurTable) = 2
    /\ CurTable[1].dst.start - CurTable[1].src.start
         # CurTable[2].dst.start - CurTable[2].src.start
    /\ \E i \in 1..Len(seeds) :
          Vals(seeds[i]) \cap Vals(CurTable[1].src) \cap Vals(CurTable[2].src) # {}
    /\ out_ranges # seeds

\* The reference of C4: a remainder split off by rule k is fed only to the
\* rules after k. Stack entries carry the first rule still to be tried.
FirstSome(table, from, sd) ==
    LET hits == {j \in from..Len(table) : try_translate(table[j], sd).tag = "Some"} IN
    IF hits = {} THEN 0 ELSE SetMin(hits)
RECURSIVE RefPieces(_, _, _, _)
RefPieces(ps, i, k, st) ==
    IF i > Len(ps) THEN st
    ELSE IF ps[i].ready
         THEN RefPieces(ps, i + 1, k, [st EXCEPT !.out = Append(@, ps[i].range)])
         ELSE RefPieces(ps, i + 1, k,
                  [st EXCEPT !.stack = Append(@, [range |-> ps[i].range, from |-> k + 1])])
RECURSIVE RefLoop(_, _)
RefLoop(table, st) ==
    IF st.stack = <<>> THEN st.out
    ELSE LET top == st.stack[Len(st.stack)]
             rest == [st EXCEPT !.stack = SubSeq(@, 1, Len(@) - 1)]
             k == FirstSome(table, top.from, top.range)
         IN IF k = 0
            THEN RefLoop(table, [rest EXCEPT !.out = Append(@, top.range)])
            ELSE RefLoop(table,
                     RefPieces(try_translate(table[k], top.range).val, 1, k, rest))
RefTranslate(table, rs) ==
    RefLoop(table, [stack |-> [i \in 1..Len(rs) |-> [range |-> rs[i], from |-> 1]],
                    out |-> <<>>])

\* The ranges one pass of translate's loop pushed back on the stack.
Requeued == SubSeq(seed_ranges', Len(seed_ranges), Len(seed_ranges'))
C4_PassRequeuesPastRule ==
    (pc = "translate" /\ pc' = "translate" /\ out_ranges' # out_ranges) =>
        LET k == FirstSome(CurTable, 1, seed_ranges[Len(seed_ranges)]) IN
        \A i \in 1..Len(Requeued), j \in 1..k :
            try_translate(CurTable[j], Requeued[i]).tag = "None"

\* C4: no rule at or before k translates a remainder split off by rule k, and
\* translate returns exactly what the reference returns that feeds each
\* remainder only to the rules after k.
C4_RemaindersSeeOnlyLaterRules ==
    /\ [](AtReturn => out_ranges = RefTranslate(CurTable, seeds))
    /\ [][C4_PassRequeuesPastRule]_vars

\* C4 witness: rule 1 split a seed range and rule 2 translated part of the
\* remainder.
C4_Witness ==
    /\ AtReturn /\ Len(CurTable) = 2 /\ Len(seeds) = 1
    /\ LET r1 == try_translate(CurTable[1], seeds[1]) IN
       /\ r1.tag = "Some"
       /\ \E i \in 1..Len(r1.val) :
             /\ ~r1.val[i].ready
             /\ try_translate(CurTable[2], r1.val[i].range).tag = "Some"

\* C10: solve returns the least value the chain of point maps gives to an
\* integer of the seed ranges, for a non-empty list of non-empty ranges.
C10_SolveReturnsMinimum ==
    (/\ pc = "done"
     /\ seeds_arg # <<>>
     /\ \A i \in 1..Len(seeds_arg) : RangeLen(seeds_arg[i]) > 0) =>
        result = SetMin({ChainMap(maps, v) :
                            v \in UNION {Vals(seeds_arg[i]) : i \in 1..Len(seeds_arg)}})

\* ------------------------------------------------ day05: parser claims
\* C5: a map line 'D S N' parses to dst = D..D+N and src = S..S+N, both of
\* length N.
C5_MapLineParsed ==
    (p5_kind = "map line" /\ p5_out.tag # "None" /\ Len(p5_nums) = 3) =>
        /\ p5_out.tag = "Ok"
        /\ p5_out.val.dst = [start |-> p5_nums[1], end |-> p5_nums[1] + p5_nums[3]]
        /\ p5_out.val.src = [start |-> p5_nums[2], end |-> p5_nums[2] + p5_nums[3]]
        /\ RangeLen(p5_out.val.dst) = p5_nums[3]
        /\ RangeLen(p5_out.val.src) = p5_nums[3]

\* C5 witness: a line of three different several-digit numbers was parsed.
C5_Witness ==
    /\ p5_kind = "map line" /\ p5_out.tag = "Ok" /\ Len(p5_nums) = 3
    /\ p5_nums[1] = 305 /\ p5_nums[2] = 10 /\ p5_nums[3] = 7

\* C6: the seed line n1..nk read as singles gives the unit ranges ni..ni+1
\* in order; read as ranges it gives start..start+length for each
\* consecutive (start, length) pair in order.
C6_SeedsParsed ==
    /\ (p5_kind = "singles" /\ p5_out.tag # "None") =>
          /\ p5_out.tag = "Ok"
          /\ p5_out.val = [i \in 1..Len(p5_nums) |->
                              [start |-> p5_nums[i], end |-> p5_nums[i] + 1]]
    /\ (p5_kind = "ranges" /\ p5_out.tag # "None") =>
          /\ p5_out.tag = "Ok"
          /\ p5_out.val = [j \in 1..(Len(p5_nums) \div 2) |->
                              [start |-> p5_nums[2 * j - 1],
                               end |-> p5_nums[2 * j - 1] + p5_nums[2 * j]]]

\* C6 witness: a line of four numbers was read as two ranges.
C6_Witness ==
    /\ p5_kind = "ranges" /\ p5_out.tag = "Ok" /\ Len(p5_out.val) = 2
    /\ p5_nums[1] > 0 /\ p5_nums[2] > 0 /\ p5_nums[3] # p5_nums[1]

\* ------------------------------------------------------- day01: claims
\* The English word of each digit 1..9.
EnglishWord ==
    << <<"o", "n", "e">>,
      <<"t", "w", "o">>,
      <<"t", "h", "r", "e", "e">>,
      <<"f", "o", "u", "r">>,
      <<"f", "i", "v", "e">>,
      <<"s", "i", "x">>,
      <<"s", "e", "v", "e", "n">>,
      <<"e", "i", "g", "h", "t">>,
      <<"n", "i", "n", "e">> >>

\* C7: search_starting_digit gives Some(d) when the text begins with the
\* numeral d or with the English word of d, whatever follows, and None for
\* every other text, the empty one included.
C7_StartingDigit ==
    d1_called =>
        /\ \A d \in 0..9 :
              (d1_line # <<>> /\ Head(d1_line) = Dec(d)[1]) => d1_found = Some(d)
        /\ \A d \in 1..9 :
              (Len(d1_line) >= Len(EnglishWord[d])
               /\ \A i \in 1..Len(EnglishWord[d]) : d1_line[i] = EnglishWord[d][i])
                  => d1_found = Some(d)
        /\ d1_found.tag = "Some" =>
              /\ d1_line # <<>>
              /\ \/ Head(d1_line) = Dec(d1_found.val)[1]
                 \/ /\ d1_found.val \in 1..9
                    /\ Len(d1_line) >= Len(EnglishWord[d1_found.val])
                    /\ SubSeq(d1_line, 1, Len(EnglishWord[d1_found.val]))
                          = EnglishWord[d1_found.val]
        /\ d1_found.tag \in {"Some", "None"}

\* C7 witness: a written digit found at the start of a text that goes on
\* with another written digit.
C7_Witness ==
    /\ d1_called /\ d1_found = Some(2)
    /\ d1_line = <<"t", "w", "o", "t", "h", "r", "e", "e">>

\* ------------------------------------------------------- day04: claims
\* The numbers written on one side of the card.
Written(side) == {side[i] : i \in 1..Len(side)}

\* C9: the match count is the number of distinct numbers written on both
\* sides of the card; the score is 2^(k-1) for k >= 1 matches and 0 for none.
C9_MatchCountAndScore ==
    d4_score.tag = "Some" =>
        LET k == Cardinality({n \in Written(d4_written.winning) :
                                 n \in Written(d4_written.have)})
        IN /\ d4_matching = Some(k)
           /\ k >= 1 => d4_score = Some(2 ^ (k - 1))
           /\ k = 0 => d4_score = Some(0)

\* C9 witness: a card with three matches, written in two orders, scored 4.
C9_Witness ==
    /\ d4_score = Some(4) /\ d4_matching = Some(3)
    /\ d4_written.have = <<83, 6, 17>>

\* ------------------------------------------------------- day02: claims
\* The amount a written set lists for a colour, 0 when it lists none.
Listed(set, colour) ==
    IF \E i \in 1..Len(set) : set[i].colour = colour
    THEN (CHOOSE g \in {set[i] : i \in 1..Len(set)} : g.colour = colour).amount
    ELSE 0
ExpectedGame ==
    [id |-> d2_written.id,
     sets |-> [i \in 1..Len(d2_written.sets) |->
                  <<Listed(d2_written.sets[i], <<"r", "e", "d">>),
                    Listed(d2_written.sets[i], <<"g", "r", "e", "e", "n">>),
                    Listed(d2_written.sets[i], <<"b", "l", "u", "e">>)>>]]

\* C8: both parsers give the id written on the line and, per set in the
\* order written, the (red, green, blue) amounts listed, 0 for a colour the
\* set does not list.
C8_GameParsed ==
    /\ d2_game.tag # "None" => (d2_game.tag = "Ok" /\ d2_game.val = ExpectedGame)
    /\ d2_game_mod.tag # "None" =>
          (d2_game_mod.tag = "Ok" /\ d2_game_mod.val = ExpectedGame)

\* C8 witness: both parsers read a game of two sets, one listing blue before
\* red and no green, the other all three colours.
C8_Witness ==
    /\ d2_game.tag = "Ok" /\ d2_game_mod.tag = "Ok"
    /\ d2_written.id = 42
    /\ d2_game.val.sets = << <<12, 0, 3>>, <<12, 255, 3>> >>

\* ------------------------------------------ day05: translate terminates
\* One pass of translate's loop popped a range and went on: every range it
\* pushed back on the stack is strictly shorter than the popped one.
C12_PushedBackShorter ==
    (pc = "translate" /\ seed_ranges # <<>> /\ pc' = "translate") =>
        \A i \in 1..Len(Requeued) :
            /\ Requeued[i].start <= Requeued[i].end
            /\ RangeLen(Requeued[i]) < RangeLen(seed_ranges[Len(seed_ranges)])

\* C12: every call of Map::translate ends (it returns to solve, or a panic
\* ends the program), and each range pushed back onto the seed stack is
\* strictly shorter than the range it was split from.
C12_TranslateTerminates ==
    /\ (pc = "translate") ~> (pc = "for_map" \/ pc = "panic")
    /\ [][C12_PushedBackShorter]_vars

\* C12 witness: translate returned after a rule of length 0 split a seed range
\* three ways and both remainders went back on the stack.
C12_Witness ==
    /\ pc = "for_map" /\ map_idx = 1 /\ Len(seeds_arg) = 1 /\ Len(maps[1]) >= 1
    /\ maps[1][1].src.start = maps[1][1].src.end
    /\ seeds_arg[1].start < maps[1][1].src.start
    /\ maps[1][1].src.end < seeds_arg[1].end
    /\ Len(seeds) = 3

\* --------------------------------------- day05: claims on try_translate
\* C11: for every seed range and every rule with start <= end, try_translate
\* ends in one of its return branches, None or Some: no unreachable!(), no
\* 'seed.start overflowed' / 'seed.end overflowed', no other panic.
C11_TryTranslateReturns ==
    t5_out.tag \in {"Pending", "None", "Some"}

\* The part of C11 that the code keeps: unreachable!() is never reached.
C11_NeverUnreachable ==
    ~(t5_out.tag = "Panic" /\ t5_out.msg = "unreachable")

\* The part of C11 that the code keeps when usize and isize agree: a rule and
\* a seed range below isize::MAX (with the rule's dst) never panic.
C11_ReturnsBelowIsizeMax ==
    (t5_line # <<>> /\ t5_line.dst.end <= ISIZE_MAX /\ t5_line.src.end <= ISIZE_MAX
     /\ t5_seeds.end <= ISIZE_MAX)
        => t5_out.tag \in {"Pending", "None", "Some"}

\* ------------------------------------------------------- day14: claims
\* The tiles of a grid by cell number, row by row from 0, and the cell one
\* step from cell i in a direction, -1 when that leaves the grid.
Cells(g) == 0..(Len(g.data) - 1)
TileAt(g, i) == g.data[i + 1]
RowStep(dir) == CASE dir = "North" -> -1 [] dir = "South" -> 1 [] OTHER -> 0
ColStep(dir) == CASE dir = "West" -> -1 [] dir = "East" -> 1 [] OTHER -> 0
Ahead(g, i, dir) ==
    LET r == (i \div g.cols) + RowStep(dir)
        c == (i % g.cols) + ColStep(dir)
    IN IF r \in 0..(g.rows - 1) /\ c \in 0..(g.cols - 1) THEN r * g.cols + c ELSE -1

\* One call tick(direction') took puzzle_main to puzzle_main' and returned
\* tiles_moved'.
C13_TickStep ==
    d14_pc = "tick" =>
        LET old == puzzle_main
            new == puzzle_main'
            left == {i \in Cells(old) : TileAt(old, i) = "Round" /\ TileAt(new, i) # "Round"}
            arrived == {i \in Cells(old) : TileAt(old, i) # "Round" /\ TileAt(new, i) = "Round"}
        IN /\ new.rows = old.rows /\ new.cols = old.cols
           /\ Len(new.data) = Len(old.data)
           /\ \A t \in Tiles :
                 Cardinality({i \in Cells(old) : TileAt(old, i) = t})
                     = Cardinality({i \in Cells(old) : TileAt(new, i) = t})
           /\ \A i \in Cells(old) : TileAt(old, i) = "Cube" <=> TileAt(new, i) = "Cube"
           /\ \A i \in left : /\ Ahead(old, i, direction') \in arrived
                              /\ TileAt(new, i) = "Empty"
           /\ \A i \in arrived : /\ TileAt(old, i) = "Empty"
                                 /\ \E j \in left : Ahead(old, j, direction') = i
           /\ tiles_moved' = Cardinality(left)
           /\ puzzle_temp' = puzzle_main'

\* C13: every call of tick keeps the number of Round, Cube and Empty tiles and
\* the place of every Cube, moves a Round tile by at most one cell, in the
\* direction given and only into a cell that was Empty before the call,
\* returns the number of Round tiles it moved and leaves puzzle_temp equal to
\* puzzle_main.
C13_TickKeepsTiles ==
    /\ [](puzzle_temp = puzzle_main)
    /\ [][C13_TickStep]_vars

\* C13 witness: tick(West) moved two Round tiles, one next to a Cube, and left
\* a third at the wall.
C13_Witness ==
    /\ d14_pc = "tick" /\ direction = "West" /\ tiles_moved = 2
    /\ puzzle_main = Grid(2, 3, <<"Round", "Empty", "Cube", "Round", "Round", "Empty">>)

\* The order of a cycle.
CycleOrder == <<"North", "West", "South", "East">>
Following(dir) ==
    LET k == CHOOSE k \in 1..4 : CycleOrder[k] = dir IN CycleOrder[(k % 4) + 1]

\* The call of next: it starts with North and changes nothing else.
C14_Call ==
    (d14_pc = "ready" /\ d14_pc' = "loop") =>
        /\ direction' = "North"
        /\ UNCHANGED <<puzzle_main, cycle_length, loads>>

\* One pass of the loop of next: a tick in the current direction; the
\* direction stays after a tick that moved boulders and advances after one
\* that moved none; next returns exactly when that was the East tick, then
\* with cycle_length one higher and one load appended.
C14_Pass ==
    d14_pc = "loop" =>
        /\ puzzle_main' = tick(puzzle_main, puzzle_temp, direction).puzzle_main
        /\ tiles_moved' = tick(puzzle_main, puzzle_temp, direction).tiles_moved
        /\ tiles_moved' # 0 => direction' = direction
        /\ tiles_moved' = 0 => direction' = Following(direction)
        /\ d14_pc' = "ready" <=> (direction = "East" /\ tiles_moved' = 0)
        /\ IF d14_pc' = "ready"
           THEN /\ cycle_length' = cycle_length + 1
                /\ Len(loads') = Len(loads) + 1
                /\ SubSeq(loads', 1, Len(loads)) = loads
           ELSE UNCHANGED <<cycle_length, loads>>

\* C14: one call of next runs the North, West, South and East ticks in that
\* order, each repeated until a tick moves no boulder, and returns only after
\* the East phase has settled, with cycle_length raised by exactly 1 and
\* exactly one load appended.
C14_OneCycle ==
    /\ [](cycle_length = Len(loads))
    /\ [](d14_pc = "ready" => direction = "North")
    /\ [][C14_Call /\ C14_Pass]_vars

\* C14 witness: the second call returned; in each of its four phases a boulder
\* moved, and the grid is the one the first call left.
C14_Witness ==
    /\ d14_pc = "ready" /\ cycle_length = 2 /\ loads = <<2, 2>>
    /\ d14_ret = Some(<<2, 1, TRUE>>)
    /\ puzzle_main = Grid(2, 3, <<"Empty", "Cube", "Empty", "Empty", "Round", "Round">>)

====
